---- MODULE Spec2Model ----
(***************************************************************************)
(* rust-release (src/src/main.rs): a command-line tool that publishes the  *)
(* binaries of target/release to the GitHub release named "master".        *)
(*                                                                         *)
(* The model holds the remote repository (its releases and their assets)   *)
(* and, for every instance of the tool, the position of its run, its local *)
(* variables and the requests it has issued.  Every HTTP request is one    *)
(* step: the request, the remote effect, the status check of exec() and    *)
(* the decoding of json().  Strings are strings; an Option is a sequence   *)
(* of length 0 (None) or 1 (Some).                                         *)
(***************************************************************************)
EXTENDS Integers, Sequences, FiniteSets, TLC

\* ------------------------------------------------------------------ bounds

\* Largest number of releases the repository holds before the run.
MaxReleases == 2
\* Largest number of assets the repository holds before the run.
MaxAssets == 2
\* Largest number of entries of the directory target/release.
MaxEntries == 3
\* Largest number of entries of a directory in the runs of two instances.
MaxPairEntries == 1
\* Largest number of entries of a directory in the runs that are followed to
\* their end whatever git prints.
MaxFairEntries == 2

\* ------------------------------------------------------------ environment

\* The instances of the tool.
Procs == {1, 2}

\* Status codes a response may carry.
Codes == {199, 200, 204, 299, 300, 404, 500}

\* exec() got no response: the transfer failed and there is no status code.
NoResponse == 0

\* The repository slug and the token the build job supplies.
Slug == "o/r"
Secret == "s3cr3t"

\* What `rustc -vV` prints, as lines, and the executable suffix of the
\* platform the tool was built for.
Platforms ==
    { [info |-> <<"rustc 1.0.0", "host: x64-windows  ">>, exe |-> ".exe"],
      [info |-> <<"rustc 1.0.0", "host: ">>, exe |-> ""],
      [info |-> <<"rustc 1.0.0">>, exe |-> ""] }

\* The platform of a second build job, and the platforms an instance may
\* run on: the jobs of one build run on different platforms.
Linux == [info |-> <<"rustc 1.0.0", "host: x64-linux">>, exe |-> ""]
PlatformsOf(p) == IF p = 1 THEN Platforms ELSE {Linux}

\* What `git rev-parse HEAD` prints for each commit hash when it succeeds,
\* and what a git that runs and exits with a failure may have printed before:
\* nothing (no repository), "HEAD" and a line end (a repository without a
\* commit), or the hash (a failure after the output).
Commits == {"c0ffee"}
GitOutput(hash) == hash \o "\n"
GitFailure(hash) == {"", "HEAD\n", GitOutput(hash)}

\* The entries target/release may hold.  A file name is an OsString: name
\* holds its characters and bad the positions of those that stand for bytes
\* that are no UTF-8 (the last entry is the name of bytes 74 ff 6f 6f 6c).
EntryPool ==
    { [name |-> "tool",   file |-> TRUE,  bad |-> {}],
      [name |-> "tool.d", file |-> TRUE,  bad |-> {}],
      [name |-> "util",   file |-> TRUE,  bad |-> {}],
      [name |-> "deps",   file |-> FALSE, bad |-> {}],
      [name |-> "t?ool",  file |-> TRUE,  bad |-> {2}] }

\* Names of releases and of assets found on the repository before the run.
ReleaseNames == {"master", "Master"}
AssetNames == {"tool-x64-linux", "tool-x64-windows.exe"}

\* ------------------------------------------------------------------ helpers

None == <<>>
Some(x) == <<x>>

Min(S) == CHOOSE i \in S : \A j \in S : i <= j
Max(S) == CHOOSE i \in S : \A j \in S : j <= i

StartsWith(s, pre) == Len(s) >= Len(pre) /\ SubSeq(s, 1, Len(pre)) = pre

\* str::find: the index of the first occurrence of pat, None when absent.
Find(s, pat) ==
    LET hits == { i \in 1..Len(s) : SubSeq(s, i, i + Len(pat) - 1) = pat }
    IN  IF hits = {} THEN None ELSE Some(Min(hits))

\* char::is_whitespace: the characters of the Unicode property White_Space
\* that a string of the model can hold: U+0009 to U+000D, U+0020, U+0085,
\* U+00A0 and U+1680 (U+2000 and above cannot be written in a string).
IsWhitespace(c) ==
    c \in {"\t", "\n", "", "\f", "\r", " ", "", " ", " "}

\* Trim, had the output of git been passed on as it is.
Trim_Not(s) == s

\* str::trim: the string without its leading and trailing whitespace.
Trim(s) ==
    LET keep == { i \in 1..Len(s) : ~IsWhitespace(SubSeq(s, i, i)) }
    IN  IF keep = {} THEN "" ELSE SubSeq(s, Min(keep), Max(keep))

\* Path::file_stem of a path whose last component is name: the name up to
\* its last ".", the whole name when it has none or only a leading one.
FileStem(name) ==
    LET dots == { i \in 1..Len(name) : SubSeq(name, i, i) = "." }
    IN  IF name = ".." \/ dots = {} \/ Max(dots) = 1
        THEN name
        ELSE SubSeq(name, 1, Max(dots) - 1)

Last(seq) == seq[Len(seq)]

\* OsStr::to_str of the first characters of a name, those of s: None when
\* one of them stands for bytes that are no UTF-8.
ToStr(s, bad) == IF \E i \in bad : i <= Len(s) THEN None ELSE Some(s)

\* The element of a sequence at the least index of a set of its indices,
\* None when the set is empty.
First(seq, hits) == IF hits = {} THEN None ELSE Some(seq[Min(hits)])

\* ---------------------------------------------------------------- requests

ReleasesUrl(r) == "https://api.github.com/repos/" \o r \o "/releases"
ReleaseUrl(r, id) ==
    "https://api.github.com/repos/" \o r \o "/releases/" \o ToString(id)
AssetUrl(r, id) ==
    "https://api.github.com/repos/" \o r \o "/releases/assets/" \o ToString(id)

\* Create, had the release been created published.
Create_Published == [tag_name |-> "master", name |-> "master", draft |-> FALSE]

\* Create, had the release been given no name.
Create_Unnamed == [tag_name |-> "master", name |-> "", draft |-> TRUE]

\* The body of the create request.
Create == [tag_name |-> "master", name |-> "master", draft |-> TRUE]

\* The body of the update request.
Update(sha) == [target_commitish |-> sha, draft |-> FALSE]

\* Filename, had the artifact been uploaded under its stem alone.
Filename_Stem(stem, h, suffix) == stem

\* The name an artifact is uploaded under.
Filename(stem, h, suffix) == stem \o "-" \o h \o suffix

\* IsFatal, had the upper end of the range been included.
IsFatal_Above(code) == code < 200 \/ code > 300

\* exec(): the response is fatal unless its code is in [200, 300).
IsFatal(code) == code < 200 \/ code >= 300

\* ------------------------------------------------------------ remote side

\* The upload endpoint of a release.
RemoteUploadBase(r) ==
    "https://uploads.github.com/repos/" \o Slug \o "/releases/"
        \o ToString(r.id) \o "/assets"

\* The URL of the list of a release's assets.
RemoteAssetsUrl(r) == ReleaseUrl(Slug, r.id) \o "/assets"

\* The JSON the service sends for a release: its fields and its URLs, the
\* upload URL a URI template.
ReleaseJson(r) ==
    [id |-> r.id, name |-> r.name, tag_name |-> r.tag_name, draft |-> r.draft,
     target_commitish |-> r.target_commitish,
     upload_url |-> RemoteUploadBase(r) \o "{?name,label}",
     assets_url |-> RemoteAssetsUrl(r)]

AssetJson(a) == [id |-> a.id, name |-> a.name, label |-> ""]

\* The struct Release as decoded from the service's JSON.
DecodeRelease(j) ==
    [id |-> j.id, name |-> j.name,
     upload_url |-> j.upload_url, assets_url |-> j.assets_url]

\* The struct Asset as decoded from the service's JSON.
DecodeAsset(j) == [id |-> j.id, name |-> j.name, label |-> j.label]

\* ------------------------------------------------------------------- state

VARIABLES
    releases,     \* remote: the releases of the repository, in listing order
    assets,       \* remote: the assets of all releases, in listing order
    nextAssetId,  \* remote: the id the next uploaded asset gets
    pc,           \* per instance: where its run stands
    fail,         \* per instance: why it panicked ("" when it has not)
    conf,         \* per instance: what its command line and environment held
    usageShown,   \* per instance: whether usage() printed the usage text
    token,        \* per instance: main's token
    repo,         \* per instance: main's repo
    host,         \* per instance: main's host
    exe,          \* per instance: env::consts::EXE_SUFFIX of its build
    handle,       \* per instance: which Handle::new() its handle came from
    rels,         \* per instance: get_release's releases
    release,      \* per instance: publish's release, None before it is set
    head,         \* per instance: the commit hash git printed ("" if none)
    sha,          \* per instance: publish's sha, the output of git
    gitStatus,    \* per instance: the exit status of git ("" before it ran)
    entries,      \* per instance: what read_dir has yielded, in its order
    path,         \* per instance: upload's path (its last component)
    v,            \* per instance: upload's v, the fetched asset list
    filename,     \* per instance: upload's filename
    log,          \* per instance: the requests it has issued, in order
    lastCode      \* per instance: the status code of its latest response,
                  \* NoResponse when its latest request got none

server == <<releases, assets, nextAssetId>>
setup == <<conf, usageShown, token, repo, host, exe>>
resolved == <<rels, release>>
commit == <<head, sha, gitStatus>>
artifact == <<path, v, filename>>
vars == <<server, pc, fail, setup, handle, resolved, commit, entries,
          artifact, log, lastCode>>

\* ------------------------------------------------------------ remote side

\* Whether the service carried a request out: it answers with a 2xx code
\* exactly when it did.
Accepted(code) == code \in 200..299

\* The number of releases on a page of the listing.
PageSize == 2

\* GET /repos/{repo}/releases: the first page of the releases, in the
\* service's order; the releases after it are on pages the tool never asks
\* for.
RemoteReleases ==
    [i \in 1..Min({Len(releases), PageSize}) |-> ReleaseJson(releases[i])]

\* POST /repos/{repo}/releases: the release the service creates for a body.
RemoteCreated(body) ==
    [id |-> Len(releases) + 1, name |-> body.name, tag_name |-> body.tag_name,
     draft |-> body.draft, target_commitish |-> "master"]

\* The releases a URL of the form /repos/{repo}/releases/{id} names.
RemoteReleaseAt(url) ==
    { i \in 1..Len(releases) : ReleaseUrl(Slug, releases[i].id) = url }

\* PATCH /repos/{repo}/releases/{id}: the releases after the update.
RemotePatched(url, body) ==
    [i \in 1..Len(releases) |->
        IF i \in RemoteReleaseAt(url)
        THEN [releases[i] EXCEPT !.target_commitish = body.target_commitish,
                                 !.draft = body.draft]
        ELSE releases[i]]

\* The releases whose assets_url is url.
RemoteAssetsAt(url) ==
    { i \in 1..Len(releases) : RemoteAssetsUrl(releases[i]) = url }

\* GET {release.assets_url}: the assets of that release, in order.
RemoteAssets(url) ==
    LET r == releases[CHOOSE i \in RemoteAssetsAt(url) : TRUE]
        IsOf(a) == a.rel = r.id
        of == SelectSeq(assets, IsOf)
    IN  [i \in 1..Len(of) |-> AssetJson(of[i])]

\* The assets a URL of the form /repos/{repo}/releases/assets/{id} names.
RemoteAssetAt(url) ==
    { i \in 1..Len(assets) : AssetUrl(Slug, assets[i].id) = url }

\* DELETE /repos/{repo}/releases/assets/{id}: the assets after the delete.
RemoteDeleted(url) ==
    LET Stays(a) == AssetUrl(Slug, a.id) # url
    IN  SelectSeq(assets, Stays)

\* The upload endpoint of a release up to and including "?name=".
RemoteUploadPrefix(r) == RemoteUploadBase(r) \o "?name="

\* The releases an upload URL names.
RemoteUploadAt(url) ==
    { i \in 1..Len(releases) : StartsWith(url, RemoteUploadPrefix(releases[i])) }

\* POST {upload_base}?name={filename}: the asset the service creates.
RemoteUploaded(url) ==
    LET r == releases[CHOOSE i \in RemoteUploadAt(url) : TRUE]
    IN  [id |-> nextAssetId, rel |-> r.id,
         name |-> SubSeq(url, Len(RemoteUploadPrefix(r)) + 1, Len(url))]

\* -------------------------------------------------------------------- init

\* The repository before the run: up to MaxReleases releases, those named
\* "master" drafts or published, the others published.
InitReleases ==
    UNION { { [i \in 1..n |->
                 [id |-> i, name |-> names[i], tag_name |-> names[i],
                  draft |-> drafts[i] /\ names[i] = "master",
                  target_commitish |-> "0ld"]] :
              names \in [1..n -> ReleaseNames], drafts \in [1..n -> BOOLEAN] } :
            n \in 0..MaxReleases }

\* Up to MaxAssets assets, attached to the first release named "master",
\* which is where earlier runs of the tool have put them.
InitAssets(rs) ==
    LET masters == { i \in 1..Len(rs) : rs[i].name = "master" }
    IN  IF masters = {} THEN { <<>> }
        ELSE UNION { { [i \in 1..m |->
                          [id |-> 10 + i, rel |-> rs[Min(masters)].id,
                           name |-> names[i]]] :
                       names \in [1..m -> AssetNames] } :
                     m \in 0..MaxAssets }

InitLocal ==
    /\ fail = [p \in Procs |-> ""]
    /\ conf = [p \in Procs |-> None]
    /\ usageShown = [p \in Procs |-> FALSE]
    /\ token = [p \in Procs |-> ""]
    /\ repo = [p \in Procs |-> ""]
    /\ host = [p \in Procs |-> ""]
    /\ exe = [p \in Procs |-> ""]
    /\ handle = [p \in Procs |-> 0]
    /\ rels = [p \in Procs |-> <<>>]
    /\ release = [p \in Procs |-> None]
    /\ head = [p \in Procs |-> ""]
    /\ sha = [p \in Procs |-> ""]
    /\ gitStatus = [p \in Procs |-> ""]
    /\ entries = [p \in Procs |-> <<>>]
    /\ path = [p \in Procs |-> ""]
    /\ v = [p \in Procs |-> <<>>]
    /\ filename = [p \in Procs |-> ""]
    /\ log = [p \in Procs |-> <<>>]
    /\ lastCode = [p \in Procs |-> NoResponse]

InitRemote ==
    /\ releases \in InitReleases
    /\ assets \in InitAssets(releases)
    /\ nextAssetId = 10 + Len(assets) + 1

\* One instance of the tool is started.
Init ==
    /\ InitRemote
    /\ InitLocal
    /\ pc = [p \in Procs |-> IF p = 1 THEN "main" ELSE "off"]

\* ------------------------------------------------------------------- steps

\* t!(), unwrap() and println!(): the run ends in a panic.  Why: "config"
\* (flagorenv), "local" (a local operation: the arguments, rustc, git, the
\* directory, the file and its name), "stdout" (println!() could not write
\* to the standard output), "transport", "status" and "decode" (a request).
Panic(p, why) ==
    /\ pc' = [pc EXCEPT ![p] = "panicked"]
    /\ fail' = [fail EXCEPT ![p] = why]

Goto(p, where) ==
    /\ pc' = [pc EXCEPT ![p] = where]
    /\ UNCHANGED fail

\* What may become of a request: the service carried it out or not, and a
\* response arrives, with a status code and, for a request the service
\* carried out, a body that is well-formed JSON of the expected shape or
\* not; or none arrives, whether the service carried the request out or not.
Responses ==
    { r \in [code : Codes \cup {NoResponse}, wellFormed : BOOLEAN,
             carried : BOOLEAN] :
        /\ r.wellFormed => Accepted(r.code)
        /\ r.code \in Codes => (r.carried <=> Accepted(r.code)) }

\* A request as exec() sends it, with what became of it: whether the
\* service carried it out, whether a 2xx response came back and, for an
\* upload, the id of the asset it made.
Request(p, op, method, url, body, resp) ==
    [op |-> op, method |-> method, url |-> url, body |-> body,
     handle |-> handle[p], auth |-> "token " \o token[p],
     agent |-> "rust-release", carried |-> resp.carried,
     accepted |-> Accepted(resp.code),
     made |-> IF op = "upload" /\ resp.carried THEN Some(nextAssetId) ELSE None]

\* exec(), up to its status check: the request is sent; lastCode is the
\* code of the response, NoResponse when exec() of the request failed.
Issue(p, req, code) ==
    /\ log' = [log EXCEPT ![p] = Append(@, req)]
    /\ lastCode' = [lastCode EXCEPT ![p] = code]

\* json(): the body decodes into the caller's type only if it is the
\* answer to a request the service carried out, and not always then.
Decodes(code, wellFormed) == Accepted(code) /\ wellFormed

\* NewHandle, had the handle been kept.
NewHandle_Same(h) == h

\* Handle::new(): a handle no earlier request of the run has used.
NewHandle(h) == h + 1

\* FlagOrEnv, had a missing value defaulted to the empty string.
FlagOrEnv_Default(matches, flag, names, env) ==
    LET var == First(names, { i \in 1..Len(names) : env[names[i]] # None })
    IN  IF matches[flag] # None THEN matches[flag]
        ELSE IF var # None THEN env[var[1]]
        ELSE Some("")

\* flagorenv: the flag when given, else the first variable that is set.
FlagOrEnv(matches, flag, names, env) ==
    LET var == First(names, { i \in 1..Len(names) : env[names[i]] # None })
    IN  IF matches[flag] # None THEN matches[flag]
        ELSE IF var # None THEN env[var[1]]
        ELSE None

\* main's host: the first line of rustc's output that starts with "host: ",
\* trimmed, from its seventh character on.  None when main panics instead:
\* no line starts with "host: " (unwrap), or the trimmed line is shorter than
\* six characters, as "host: " is once trimmed (the slice [6..]).
HostOf(info) ==
    LET line == First(info, { i \in 1..Len(info) : StartsWith(info[i], "host: ") })
    IN  IF line = None THEN None
        ELSE IF Len(Trim(line[1])) < 6 THEN None
        ELSE Some(SubSeq(Trim(line[1]), 7, Len(Trim(line[1]))))

Opt(x) == {None, Some(x)}


\* What getopts may hand to main, and what the environment may hold.
Matches == [t : Opt(Secret), r : Opt(Slug)]
Envs == [GH_TOKEN : Opt(Secret), TOKEN : Opt(Secret), TRAVIS_REPO_SLUG : Opt(Slug)]

\* main, up to its call of publish and publish's Handle::new().  env::args()
\* panics on an argument that is no valid Unicode; on a parse error main
\* prints the error and the usage, on -h the usage, and returns; println!()
\* panics when the standard output cannot be written (printed is whether the
\* lines of this step could all be written).
Main(p) ==
    /\ pc[p] = "main"
    /\ \E unicode \in BOOLEAN, parsed \in BOOLEAN, h \in BOOLEAN,
          printed \in BOOLEAN, m \in Matches, env \in Envs :
        LET tok == FlagOrEnv(m, "t", <<"GH_TOKEN", "TOKEN">>, env)
            rep == FlagOrEnv(m, "r", <<"TRAVIS_REPO_SLUG">>, env)
            read == unicode /\ parsed
        IN  /\ conf' = [conf EXCEPT ![p] = Some(
                   [unicode |-> unicode, parsed |-> read, h |-> read /\ h,
                    token |-> m.t # None \/ env.GH_TOKEN # None \/ env.TOKEN # None,
                    repo |-> m.r # None \/ env.TRAVIS_REPO_SLUG # None])]
            /\ usageShown' = [usageShown EXCEPT ![p] =
                                 unicode /\ (~parsed \/ h) /\ printed]
            /\ IF ~unicode
               THEN Panic(p, "local") /\ UNCHANGED <<token, repo, host, exe, handle>>
               ELSE IF (~parsed \/ h) /\ ~printed
               THEN Panic(p, "stdout") /\ UNCHANGED <<token, repo, host, exe, handle>>
               ELSE IF ~parsed \/ h
               THEN Goto(p, "exited") /\ UNCHANGED <<token, repo, host, exe, handle>>
               ELSE IF tok = None \/ rep = None
               THEN Panic(p, "config") /\ UNCHANGED <<token, repo, host, exe, handle>>
               ELSE \E plat \in PlatformsOf(p), ran \in BOOLEAN :
                    IF ~ran \/ HostOf(plat.info) = None
                    THEN /\ Panic(p, "local")
                         /\ UNCHANGED <<token, repo, host, exe, handle>>
                    ELSE /\ token' = [token EXCEPT ![p] = tok[1]]
                         /\ repo' = [repo EXCEPT ![p] = rep[1]]
                         /\ host' = [host EXCEPT ![p] = HostOf(plat.info)[1]]
                         /\ exe' = [exe EXCEPT ![p] = plat.exe]
                         /\ handle' = [handle EXCEPT ![p] = NewHandle(@)]
                         /\ Goto(p, "get_release")
    /\ UNCHANGED <<server, resolved, commit, entries, artifact, log, lastCode>>

\* FindRelease, had the scan kept the last match instead of returning.
FindRelease_Last(rs) ==
    LET hits == { i \in 1..Len(rs) : rs[i].name = "master" }
    IN  IF hits = {} THEN None ELSE Some(rs[Max(hits)])

\* get_release's scan: the first release named "master".
FindRelease(rs) == First(rs, { i \in 1..Len(rs) : rs[i].name = "master" })

\* get_release, its GET and its scan of the releases.
ListReleases(p) ==
    /\ pc[p] = "get_release"
    /\ LET url == ReleasesUrl(repo[p])
           got == [i \in 1..Len(RemoteReleases) |-> DecodeRelease(RemoteReleases[i])]
       IN  \E resp \in Responses :
        LET code == resp.code
            decoded == resp.wellFormed
        IN  /\ resp.carried => url = ReleasesUrl(Slug)
            /\ Issue(p, Request(p, "list", "GET", url, None, resp), code)
            /\ IF code = NoResponse THEN Panic(p, "transport") /\ UNCHANGED resolved
               ELSE IF IsFatal(code) THEN Panic(p, "status") /\ UNCHANGED resolved
               ELSE IF ~Decodes(code, decoded) THEN Panic(p, "decode") /\ UNCHANGED resolved
               ELSE /\ rels' = [rels EXCEPT ![p] = got]
                    /\ release' = [release EXCEPT ![p] = FindRelease(got)]
                    /\ Goto(p, IF FindRelease(got) = None THEN "create"
                               ELSE "rev_parse")
    /\ UNCHANGED <<server, setup, handle, commit, entries, artifact>>

\* get_release, its POST when no release is named "master".
CreateRelease(p) ==
    /\ pc[p] = "create"
    /\ LET url == ReleasesUrl(repo[p])
           made == RemoteCreated(Create)
       IN  \E resp \in Responses :
        LET code == resp.code
            decoded == resp.wellFormed
        IN  /\ resp.carried => url = ReleasesUrl(Slug)
            /\ Issue(p, Request(p, "create", "POST", url, Some(Create), resp), code)
            /\ releases' = IF resp.carried THEN Append(releases, made)
                           ELSE releases
            /\ IF code = NoResponse THEN Panic(p, "transport") /\ UNCHANGED resolved
               ELSE IF IsFatal(code) THEN Panic(p, "status") /\ UNCHANGED resolved
               ELSE IF ~Decodes(code, decoded) THEN Panic(p, "decode") /\ UNCHANGED resolved
               ELSE /\ release' = [release EXCEPT ![p] =
                                      Some(DecodeRelease(ReleaseJson(made)))]
                    /\ UNCHANGED rels
                    /\ Goto(p, "rev_parse")
    /\ UNCHANGED <<assets, nextAssetId, setup, handle, commit, entries, artifact>>

\* publish, its `git rev-parse HEAD`: git cannot be started, or its output
\* is no UTF-8, and t!() panics; or git runs and publish takes its standard
\* output whatever its exit status, which it does not look at.
RevParse(p) ==
    /\ pc[p] = "rev_parse"
    /\ \E hash \in Commits, git \in {"not started", "success", "failure"} :
        IF git = "not started"
        THEN Panic(p, "local") /\ UNCHANGED commit
        ELSE \E out \in IF git = "success" THEN {GitOutput(hash)}
                         ELSE GitFailure(hash) :
             /\ gitStatus' = [gitStatus EXCEPT ![p] = git]
             /\ head' = [head EXCEPT ![p] = IF out = GitOutput(hash) THEN hash
                                            ELSE ""]
             /\ sha' = [sha EXCEPT ![p] = out]
             /\ Goto(p, "update_release")
    /\ UNCHANGED <<server, setup, handle, resolved, entries, artifact, log, lastCode>>

\* update_release, called with the trimmed sha.
UpdateRelease(p) ==
    /\ pc[p] = "update_release"
    /\ LET url == ReleaseUrl(repo[p], release[p][1].id)
           body == Update(Trim(sha[p]))
       IN  \E resp \in Responses :
        LET code == resp.code
            decoded == resp.wellFormed
        IN  /\ resp.carried => RemoteReleaseAt(url) # {}
            /\ Issue(p, Request(p, "update", "PATCH", url, Some(body), resp), code)
            /\ releases' = IF resp.carried THEN RemotePatched(url, body)
                           ELSE releases
            /\ IF code = NoResponse THEN Panic(p, "transport")
               ELSE IF IsFatal(code) THEN Panic(p, "status")
               ELSE IF ~Decodes(code, decoded) THEN Panic(p, "decode")
               ELSE Goto(p, "read_dir")
    /\ UNCHANGED <<assets, nextAssetId, setup, handle, resolved, commit, entries,
                   artifact>>

\* IsFile, had the loop not skipped what is no regular file.
IsFile_Any(entry) == TRUE

\* publish's test of an entry: only regular files are uploaded.
IsFile(entry) == entry.file

\* publish, after update_release: the line "release: {id}", the new handle
\* and read_dir.
ReadDir(p) ==
    /\ pc[p] = "read_dir"
    /\ \E printed \in BOOLEAN, opened \in BOOLEAN :
        IF ~printed
        THEN Panic(p, "stdout") /\ UNCHANGED <<handle, entries>>
        ELSE /\ handle' = [handle EXCEPT ![p] = NewHandle(@)]
             /\ IF opened
                THEN /\ entries' = [entries EXCEPT ![p] = <<>>]
                     /\ Goto(p, "next_file")
                ELSE Panic(p, "local") /\ UNCHANGED entries
    /\ UNCHANGED <<server, setup, resolved, commit, artifact, log, lastCode>>

\* What the iterator of read_dir may yield after the entries in seen: the
\* end (None), or another entry of the directory, read or not.
Yields(seen) ==
    {None} \cup
    { Some([entry |-> e, read |-> r]) :
        e \in { x \in EntryPool : Len(seen) < MaxEntries
                                  /\ \A i \in 1..Len(seen) : seen[i] # x },
        r \in BOOLEAN }

\* publish, one turn of its loop: the next entry, skipped unless a file.
NextFile(p) ==
    /\ pc[p] = "next_file"
    /\ \E next \in Yields(entries[p]) :
        IF next = None
        THEN Goto(p, "done") /\ UNCHANGED <<entries, path>>
        ELSE IF ~next[1].read
        THEN Panic(p, "local") /\ UNCHANGED <<entries, path>>
        ELSE /\ entries' = [entries EXCEPT ![p] = Append(@, next[1].entry)]
             /\ IF IsFile(next[1].entry)
                THEN /\ path' = [path EXCEPT ![p] = next[1].entry.name]
                     /\ Goto(p, "list_assets")
                ELSE /\ UNCHANGED path
                     /\ Goto(p, "next_file")
    /\ UNCHANGED <<server, setup, handle, resolved, commit, v, filename,
                   log, lastCode>>

\* FindAsset, had the scan found nothing to delete.
FindAsset_None(as, name) == None

\* FindAsset, had the scan not compared the names.
FindAsset_Any(as, name) == First(as, 1..Len(as))

\* FindAsset, had the scan kept the last match instead of breaking.
FindAsset_Last(as, name) ==
    LET hits == { i \in 1..Len(as) : as[i].name = name }
    IN  IF hits = {} THEN None ELSE Some(as[Max(hits)])

\* upload's scan: the first fetched asset whose name is the filename.
FindAsset(as, name) == First(as, { i \in 1..Len(as) : as[i].name = name })

\* Fetched, had the list been fetched once per run and kept for the later
\* artifacts.
Fetched_Once(p, sent) ==
    IF \E i \in 1..Len(log[p]) : log[p][i].op = "assets" /\ log[p][i].accepted
    THEN v[p]
    ELSE [i \in 1..Len(sent) |-> DecodeAsset(sent[i])]

\* upload's v: the list decoded from the response to this artifact's GET.
Fetched(p, sent) == [i \in 1..Len(sent) |-> DecodeAsset(sent[i])]

\* upload, its line "fetching assets: {url}", its GET of the assets, the
\* stem of its path as a string and its scan of the assets.  The path is
\* that of the entry the loop of publish has reached; a stem that is no
\* UTF-8 panics (unwrap), once the assets are fetched and decoded.
ListAssets(p) ==
    /\ pc[p] = "list_assets"
    /\ LET url == release[p][1].assets_url
           stem == ToStr(FileStem(path[p]), Last(entries[p]).bad)
       IN  \E printed \in BOOLEAN :
        IF ~printed
        THEN Panic(p, "stdout") /\ UNCHANGED <<v, filename, log, lastCode>>
        ELSE \E resp \in Responses :
        LET code == resp.code
            decoded == resp.wellFormed
        IN  /\ resp.carried => RemoteAssetsAt(url) # {}
            /\ Issue(p, Request(p, "assets", "GET", url, None, resp), code)
            /\ IF code = NoResponse THEN Panic(p, "transport") /\ UNCHANGED <<v, filename>>
               ELSE IF IsFatal(code) THEN Panic(p, "status") /\ UNCHANGED <<v, filename>>
               ELSE IF ~Decodes(code, decoded) THEN Panic(p, "decode") /\ UNCHANGED <<v, filename>>
               ELSE LET sent == RemoteAssets(url)
                        got == Fetched(p, sent)
                    IN  /\ v' = [v EXCEPT ![p] = got]
                        /\ IF stem = None
                           THEN Panic(p, "local") /\ UNCHANGED filename
                           ELSE LET name == Filename(stem[1], host[p], exe[p])
                                IN  /\ filename' = [filename EXCEPT ![p] = name]
                                    /\ Goto(p, IF FindAsset(got, name) = None
                                               THEN "upload" ELSE "delete")
    /\ UNCHANGED <<server, setup, handle, resolved, commit, entries, path>>

\* upload, at the asset the scan found: the line "deleting previous asset:
\* {url}", then the DELETE of that asset.
DeleteAsset(p) ==
    /\ pc[p] = "delete"
    /\ LET url == AssetUrl(repo[p], FindAsset(v[p], filename[p])[1].id)
       IN  \E printed \in BOOLEAN :
        IF ~printed
        THEN Panic(p, "stdout") /\ UNCHANGED <<assets, log, lastCode>>
        ELSE \E resp \in Responses :
        LET code == resp.code
        IN  /\ resp.carried => RemoteAssetAt(url) # {}
            /\ Issue(p, Request(p, "delete", "DELETE", url, None, resp), code)
            /\ assets' = IF resp.carried THEN RemoteDeleted(url) ELSE assets
            /\ IF code = NoResponse THEN Panic(p, "transport")
               ELSE IF IsFatal(code) THEN Panic(p, "status")
               ELSE Goto(p, "upload")
    /\ UNCHANGED <<releases, nextAssetId, setup, handle, resolved, commit, entries,
                   artifact>>

\* UploadUrl, had the name been sent as the label.
UploadUrl_Label(template, name) ==
    SubSeq(template, 1, Find(template, "{")[1] - 1) \o "?label=" \o name

\* UploadUrl, had the template been used as it is.
UploadUrl_Whole(template, name) == template \o "?name=" \o name

\* upload's URL: upload_url up to its first "{", "?name=" and the filename.
UploadUrl(template, name) ==
    SubSeq(template, 1, Find(template, "{")[1] - 1) \o "?name=" \o name

\* upload, from File::open to the POST of the file: the file is opened and
\* its metadata read, the URL is built and the line "upload to: {url}"
\* printed, the file is posted.
UploadAsset(p) ==
    /\ pc[p] = "upload"
    /\ \E opened \in BOOLEAN, printed \in BOOLEAN :
        IF ~opened \/ Find(release[p][1].upload_url, "{") = None
        THEN /\ Panic(p, "local")
             /\ UNCHANGED <<server, log, lastCode>>
        ELSE IF ~printed
        THEN /\ Panic(p, "stdout")
             /\ UNCHANGED <<server, log, lastCode>>
        ELSE LET url == UploadUrl(release[p][1].upload_url, filename[p])
             IN  \E resp \in Responses :
             LET code == resp.code
                 decoded == resp.wellFormed
             IN  /\ resp.carried => RemoteUploadAt(url) # {}
                 /\ Issue(p, Request(p, "upload", "POST", url, Some(path[p]), resp),
                          code)
                 /\ assets' = IF resp.carried THEN Append(assets, RemoteUploaded(url))
                              ELSE assets
                 /\ nextAssetId' = IF resp.carried THEN nextAssetId + 1
                                   ELSE nextAssetId
                 /\ UNCHANGED releases
                 /\ IF code = NoResponse THEN Panic(p, "transport")
                    ELSE IF IsFatal(code) THEN Panic(p, "status")
                    ELSE IF ~Decodes(code, decoded) THEN Panic(p, "decode")
                    ELSE Goto(p, "next_file")
    /\ UNCHANGED <<setup, handle, resolved, commit, entries, artifact>>

Step(p) ==
    \/ Main(p)
    \/ ListReleases(p)
    \/ CreateRelease(p)
    \/ RevParse(p)
    \/ UpdateRelease(p)
    \/ ReadDir(p)
    \/ NextFile(p)
    \/ ListAssets(p)
    \/ DeleteAsset(p)
    \/ UploadAsset(p)

Next == \E p \in Procs : Step(p)

Spec == Init /\ [][Next]_vars

\* The service answers 200 or 404, or the request gets no response: one
\* code for the responses exec() lets through and one for those it does not.
Answered(p) == lastCode[p] \in {NoResponse, 200, 404}

\* A git that exits with a failure has printed nothing.
Silent(p) == gitStatus[p] = "failure" => sha[p] = ""

\* A file whose name is no UTF-8 is the first or the second entry that
\* read_dir yields.
Early(p) == \A i \in 1..Len(entries[p]) : entries[p][i].bad # {} => i <= 2

\* The setting of a run: the service answers 200 or 404 or the request gets
\* no response, a failed git has printed nothing, and a file whose name is
\* no UTF-8 comes early in the directory.
Usual(p) == Answered(p) /\ Silent(p) /\ Early(p)

\* The steps of a run in that setting.
RunNext ==
    \E p \in Procs :
        \/ Main(p) /\ Usual(p)'
        \/ ListReleases(p) /\ Usual(p)'
        \/ CreateRelease(p) /\ Usual(p)'
        \/ RevParse(p) /\ Usual(p)'
        \/ UpdateRelease(p) /\ Usual(p)'
        \/ ReadDir(p) /\ Usual(p)'
        \/ NextFile(p) /\ Usual(p)'
        \/ ListAssets(p) /\ Usual(p)'
        \/ DeleteAsset(p) /\ Usual(p)'
        \/ UploadAsset(p) /\ Usual(p)'
Run == Init /\ [][RunNext]_vars

\* The setting of the runs followed to their end: the service answers 200
\* or 404 or the request gets no response, git prints whatever it may, and a
\* directory holds at most MaxFairEntries entries.
Brief(p) == Answered(p) /\ Len(entries[p]) <= MaxFairEntries

\* The steps of a run in that setting.
FairNext ==
    \E p \in Procs :
        \/ Main(p) /\ Brief(p)'
        \/ ListReleases(p) /\ Brief(p)'
        \/ CreateRelease(p) /\ Brief(p)'
        \/ RevParse(p) /\ Brief(p)'
        \/ UpdateRelease(p) /\ Brief(p)'
        \/ ReadDir(p) /\ Brief(p)'
        \/ NextFile(p) /\ Brief(p)'
        \/ ListAssets(p) /\ Brief(p)'
        \/ DeleteAsset(p) /\ Brief(p)'
        \/ UploadAsset(p) /\ Brief(p)'

\* A run every call of which returns: no request and no subprocess hangs.
FairSpec == Init /\ [][FairNext]_vars /\ WF_vars(FairNext)

\* A directory holds at most MaxPairEntries entries.
Short(p) == Len(entries[p]) <= MaxPairEntries

\* The setting of the runs that meet every status code: such a directory,
\* and a failed git that has printed nothing.
Plain(p) == Short(p) /\ Silent(p)

\* The steps of a run over such a directory, whatever the service answers.
CodedNext ==
    \E p \in Procs :
        \/ Main(p) /\ Plain(p)'
        \/ ListReleases(p) /\ Plain(p)'
        \/ CreateRelease(p) /\ Plain(p)'
        \/ RevParse(p) /\ Plain(p)'
        \/ UpdateRelease(p) /\ Plain(p)'
        \/ ReadDir(p) /\ Plain(p)'
        \/ NextFile(p) /\ Plain(p)'
        \/ ListAssets(p) /\ Plain(p)'
        \/ DeleteAsset(p) /\ Plain(p)'
        \/ UploadAsset(p) /\ Plain(p)'
Coded == Init /\ [][CodedNext]_vars

\* ------------------------------------------------------------ several runs

\* The run of instance p is over.
Ended(p) == pc[p] \in {"done", "panicked", "exited"}

\* The repository before the runs of two instances: no release or one, with
\* up to two assets.
PairInit ==
    /\ releases \in { rs \in InitReleases : Len(rs) <= 1 }
    /\ assets \in { as \in InitAssets(releases) : Len(as) <= 2 }
    /\ nextAssetId = 10 + Len(assets) + 1
    /\ InitLocal
    /\ pc = [p \in Procs |-> "main"]

\* The setting of the runs of two instances: the service answers
\* 200 or 404 or the request gets no response, a directory holds at most
\* MaxPairEntries entries, and git, when it runs, resolves HEAD.
Calm(p) ==
    /\ Answered(p)
    /\ Short(p)
    /\ gitStatus[p] # "failure"

\* The setting of interleaved runs: moreover the instances are
\* configured, every body decodes and the local operations succeed, so that
\* a run fails, if it does, on the status of a response; the directories
\* hold tool, tool.d and deps.
Steady(p) ==
    /\ Calm(p)
    /\ \A i \in 1..Len(entries[p]) :
        entries[p][i].name \in {"tool", "tool.d", "deps"}
    /\ fail[p] \in {"", "status"}
    /\ pc[p] # "exited"

\* Two instances, their requests interleaved in any order.
PairNext ==
    \E p \in Procs :
        \/ Main(p) /\ Steady(p)'
        \/ ListReleases(p) /\ Steady(p)'
        \/ CreateRelease(p) /\ Steady(p)'
        \/ RevParse(p) /\ Steady(p)'
        \/ UpdateRelease(p) /\ Steady(p)'
        \/ ReadDir(p) /\ Steady(p)'
        \/ NextFile(p) /\ Steady(p)'
        \/ ListAssets(p) /\ Steady(p)'
        \/ DeleteAsset(p) /\ Steady(p)'
        \/ UploadAsset(p) /\ Steady(p)'
Pair == PairInit /\ [][PairNext]_vars

\* Two runs, the second started when the first is over or when the create
\* call of the first has succeeded.
Turn(p) ==
    p = 2 =>
        \/ Ended(1)
        \/ \E i \in 1..Len(log[1]) : log[1][i].op = "create" /\ log[1][i].accepted

\* The repository before a sequence of runs: no release or one, with up to
\* two assets, or a page full of releases none of which is named "master".
RunsInit ==
    /\ releases \in { rs \in InitReleases :
                         \/ Len(rs) <= 1
                         \/ /\ Len(rs) = PageSize
                            /\ \A i \in 1..Len(rs) : rs[i].name # "master" }
    /\ assets \in { as \in InitAssets(releases) : Len(as) <= 2 }
    /\ nextAssetId = 10 + Len(assets) + 1
    /\ InitLocal
    /\ pc = [p \in Procs |-> "main"]

\* The setting of a sequence of runs: that of two instances, and the runs
\* are configured and their local operations succeed, so that a run ends
\* early, if it does, on a request: on the status of its response or for
\* want of one.
Quiet(p) ==
    /\ Calm(p)
    /\ \A i \in 1..Len(entries[p]) : entries[p][i].bad = {}
    /\ fail[p] \in {"", "status", "transport"}
    /\ pc[p] # "exited"

RunsNext ==
    \E p \in Procs :
        \/ Turn(p) /\ Main(p) /\ Quiet(p)'
        \/ Turn(p) /\ ListReleases(p) /\ Quiet(p)'
        \/ Turn(p) /\ CreateRelease(p) /\ Quiet(p)'
        \/ Turn(p) /\ RevParse(p) /\ Quiet(p)'
        \/ Turn(p) /\ UpdateRelease(p) /\ Quiet(p)'
        \/ Turn(p) /\ ReadDir(p) /\ Quiet(p)'
        \/ Turn(p) /\ NextFile(p) /\ Quiet(p)'
        \/ Turn(p) /\ ListAssets(p) /\ Quiet(p)'
        \/ Turn(p) /\ DeleteAsset(p) /\ Quiet(p)'
        \/ Turn(p) /\ UploadAsset(p) /\ Quiet(p)'
Runs == RunsInit /\ [][RunsNext]_vars

\* ------------------------------------------------------------------ claims

\* The positions of an instance's requests of the given kinds.
Ops(p, kinds) == { i \in 1..Len(log[p]) : log[p][i].op \in kinds }

\* upload() has returned for the artifact named filename[p]: its POST is the
\* latest request and the loop is back at its head, or over.
Returned(p) ==
    /\ pc[p] \in {"next_file", "done"}
    /\ log[p] # <<>>
    /\ Last(log[p]).op = "upload"

\* The assets of instance p's release that carry the name of its artifact.
Named(p) ==
    { i \in 1..Len(assets) :
        assets[i].rel = release[p][1].id /\ assets[i].name = filename[p] }

\* Whether the repository holds an asset of the given id.
Present(id) == \E k \in 1..Len(assets) : assets[k].id = id

\* The fetched assets that carry the name of the artifact.
Matching(p) == { i \in 1..Len(v[p]) : v[p][i].name = filename[p] }

\* C1 as claimed: after upload() returns for an artifact, the release holds at
\* most one asset with the artifact's derived name, whatever assets the
\* release held before.
C1_AtMostOneAlways ==
    \A p \in Procs : Returned(p) => Cardinality(Named(p)) <= 1

\* C1, amended: after upload() returns for an artifact, the release holds
\* exactly one asset with the artifact's derived name provided the asset list
\* fetched for the artifact held at most one asset of that name; only the
\* first match is deleted, so of k > 1 such assets k remain.
C1_AtMostOne ==
    \A p \in Procs :
        Returned(p) =>
            Cardinality(Named(p)) =
                IF Cardinality(Matching(p)) <= 1 THEN 1 ELSE Cardinality(Matching(p))

\* A previous asset of the artifact's name was deleted and replaced.
C1_Witness ==
    /\ Returned(1)
    /\ Cardinality(Matching(1)) = 1
    /\ Ops(1, {"delete"}) # {}
    /\ Cardinality(Named(1)) = 1

\* get_release has returned after a listing without a release named "master".
CreatedCase(p) ==
    /\ release[p] # None
    /\ \A i \in 1..Len(rels[p]) : rels[p][i].name # "master"

\* C2: when the listing holds no release named "master", get_release issues
\* exactly one create call, a POST of tag_name "master", name "master" and
\* draft true to the releases URL, and returns the record the service
\* created: a release named "master" that the listing did not hold, which is
\* a draft until the update.
C2_CreateOnce ==
    \A p \in Procs :
        CreatedCase(p) =>
            /\ Cardinality(Ops(p, {"create"})) = 1
            /\ \A i \in Ops(p, {"create"}) :
                /\ log[p][i].method = "POST"
                /\ log[p][i].url = "https://api.github.com/repos/o/r/releases"
                /\ log[p][i].body =
                       <<[tag_name |-> "master", name |-> "master", draft |-> TRUE]>>
            /\ release[p][1].name = "master"
            /\ \A i \in 1..Len(rels[p]) : rels[p][i].id # release[p][1].id
            /\ \E i \in 1..Len(releases) :
                /\ releases[i].id = release[p][1].id
                /\ releases[i].name = "master"
                /\ releases[i].tag_name = "master"
                /\ DecodeRelease(ReleaseJson(releases[i])) = release[p][1]
                /\ pc[p] \in {"rev_parse", "update_release"} => releases[i].draft

\* The release was created beside an existing release of another name.
C2_Witness ==
    /\ CreatedCase(1)
    /\ pc[1] = "rev_parse"
    /\ Len(rels[1]) > 0
    /\ Last(releases).draft

\* The positions of the listed releases named "master".
Masters(p) == { i \in 1..Len(rels[p]) : rels[p][i].name = "master" }

\* C3: when the listing holds a release named exactly "master", at any
\* position, get_release issues no create call and returns that entry, the
\* first of them in the listing's order when there are several.
C3_FirstMaster ==
    \A p \in Procs :
        Masters(p) # {} =>
            /\ Ops(p, {"create"}) = {}
            /\ release[p] = Some(rels[p][Min(Masters(p))])

\* The release named "master" was found behind a release named "Master".
C3_Witness ==
    /\ Masters(1) = {2}
    /\ rels[1][1].name = "Master"
    /\ release[1] # None
    /\ pc[1] = "rev_parse"

\* upload's scan is over for the artifact named filename[p]: upload() is
\* past its loop over the fetched assets, or has sent its DELETE, or the run
\* has ended in the scan, on the line upload() prints before its DELETE or
\* its POST.
Scanned(p) ==
    \/ pc[p] = "upload"
    \/ log[p] # <<>> /\ Last(log[p]).op \in {"delete", "upload"}
    \/ /\ pc[p] = "panicked"
       /\ fail[p] = "stdout"
       /\ log[p] # <<>>
       /\ Last(log[p]).op = "assets"

\* The run has ended on the line upload() prints before its DELETE: the
\* asset list was fetched and decoded, it holds an entry of the artifact's
\* name, and the panic of println!() came before the request.
Unprinted(p) ==
    /\ pc[p] = "panicked"
    /\ fail[p] = "stdout"
    /\ log[p] # <<>>
    /\ Last(log[p]).op = "assets"
    /\ Matching(p) # {}

\* The delete calls issued for the current artifact: those after the latest
\* fetch of the asset list.
Deletes(p) ==
    { i \in Ops(p, {"delete"}) : \A j \in Ops(p, {"assets"}) : j < i }

\* C4 as claimed: for each artifact, once the scan is over: if the fetched
\* asset list holds an entry named as the artifact, exactly one delete call
\* was issued for the artifact, to the URL of the id of the first such entry;
\* if it holds none, no delete call was issued.
C4_ExactlyOne ==
    \A p \in Procs :
        Scanned(p) =>
            IF Matching(p) # {}
            THEN /\ Cardinality(Deletes(p)) = 1
                 /\ \A i \in Deletes(p) :
                     /\ log[p][i].method = "DELETE"
                     /\ log[p][i].url =
                            "https://api.github.com/repos/o/r/releases/assets/"
                                \o ToString(v[p][Min(Matching(p))].id)
            ELSE Deletes(p) = {}

\* C4, amended: for each artifact, once the scan is over: if the fetched
\* asset list holds an entry named as the artifact, exactly one delete call
\* was issued for the artifact, to the URL of the id of the first such
\* entry, unless the line "deleting previous asset" could not be printed:
\* then the run has ended in that panic with no delete call issued and the
\* entry still on the release; if the list holds no such entry, no delete
\* call was issued.
C4_DeleteTargets ==
    \A p \in Procs :
        Scanned(p) =>
            IF Matching(p) = {} THEN Deletes(p) = {}
            ELSE IF Unprinted(p)
            THEN /\ Deletes(p) = {}
                 /\ Present(v[p][Min(Matching(p))].id)
            ELSE /\ Cardinality(Deletes(p)) = 1
                 /\ \A i \in Deletes(p) :
                     /\ log[p][i].method = "DELETE"
                     /\ log[p][i].url =
                            "https://api.github.com/repos/o/r/releases/assets/"
                                \o ToString(v[p][Min(Matching(p))].id)

\* The asset list held two entries of the artifact's name and one delete
\* call was issued.
C4_Witness ==
    /\ pc[1] = "upload"
    /\ Cardinality(Matching(1)) = 2
    /\ Cardinality(Deletes(1)) = 1

\* The string update_release is given: what git printed, without the white
\* space around it.
Given(p) ==
    CASE sha[p] = "c0ffee\n" -> "c0ffee"
      [] sha[p] = "HEAD\n" -> "HEAD"
      [] sha[p] = "" -> ""

\* C5: update_release sends one PATCH, to the URL of the resolved release's
\* id, with draft false and target_commitish the string it was given, which
\* is what git printed without the line end: the commit hash, or "HEAD" or
\* nothing after a git that failed; once the PATCH has returned 2xx the release is
\* published, not a draft, with that target commit, whatever it was before.
C5_Update ==
    \A p \in Procs :
        /\ Cardinality(Ops(p, {"update"})) <= 1
        /\ pc[p] \in {"read_dir", "next_file", "list_assets", "delete", "upload",
                      "done"} => Ops(p, {"update"}) # {}
        /\ \A i \in Ops(p, {"update"}) :
            /\ log[p][i].method = "PATCH"
            /\ log[p][i].url = "https://api.github.com/repos/o/r/releases/"
                                   \o ToString(release[p][1].id)
            /\ log[p][i].body =
                   <<[target_commitish |-> Given(p), draft |-> FALSE]>>
            /\ gitStatus[p] = "success" => Given(p) = "c0ffee"
            /\ log[p][i].accepted =>
                   \E k \in 1..Len(releases) :
                       /\ releases[k].id = release[p][1].id
                       /\ ~releases[k].draft
                       /\ releases[k].target_commitish = Given(p)

\* The release the run created as a draft has been published by the update.
C5_Witness ==
    /\ pc[1] = "read_dir"
    /\ Ops(1, {"create"}) # {}
    /\ ~Last(releases).draft
    /\ Last(releases).id = release[1][1].id
    /\ Last(releases).target_commitish = "c0ffee"
    /\ sha[1] = "c0ffee\n"

\* C6: whatever the request, its response takes the fatal path of exec()
\* exactly when its code is below 200 or at least 300: after 199, 300, 404
\* and 500 the run has panicked on the status, after 200, 204 and 299 it has
\* not.  (A request without a response has no code: exec() panics before
\* its status check.)
C6_StatusRange ==
    \A p \in Procs :
        log[p] # <<>> =>
            /\ fail[p] = "status" <=>
                   /\ lastCode[p] # NoResponse
                   /\ lastCode[p] < 200 \/ lastCode[p] >= 300
            /\ lastCode[p] = NoResponse <=> fail[p] = "transport"
            /\ lastCode[p] \in {199, 300, 404, 500} =>
                   pc[p] = "panicked" /\ fail[p] = "status"
            /\ lastCode[p] \in {200, 204, 299} => fail[p] # "status"

\* A delete answered with 199 has ended the run.
C6_Witness ==
    /\ log[1] # <<>>
    /\ Last(log[1]).op = "delete"
    /\ lastCode[1] = 199
    /\ pc[1] = "panicked"

AssetOps == {"assets", "delete", "upload"}
IsAssetOp(req) == req.op \in AssetOps
IsUpload(req) == req.op = "upload"
IsRegular(entry) == entry.file

\* The requests of upload(), and the regular files of the directory, in order.
AssetPhase(p) == SelectSeq(log[p], IsAssetOp)
Uploads(p) == SelectSeq(log[p], IsUpload)
Regular(p) == SelectSeq(entries[p], IsRegular)

\* C7: at the end of a run in which nothing failed, the requests of upload()
\* are one sequence per regular file of the directory, in the directory's
\* order: a fetch of the release's assets, at most one delete, one upload of
\* that file; every sequence is complete before the next begins and there
\* is none for an entry that is no regular file.
C7_OneSequencePerFile ==
    \A p \in Procs :
        pc[p] = "done" =>
            LET A == AssetPhase(p)
            IN  /\ Len(Uploads(p)) = Len(Regular(p))
                /\ Cardinality(Ops(p, {"assets"})) = Len(Regular(p))
                /\ \A k \in 1..Len(Uploads(p)) :
                       Uploads(p)[k].body = Some(Regular(p)[k].name)
                /\ \A i \in 1..Len(A) :
                    /\ A[i].op = "assets" =>
                        /\ A[i].url = release[p][1].assets_url
                        /\ i < Len(A)
                        /\ A[i + 1].op \in {"delete", "upload"}
                    /\ A[i].op = "delete" =>
                        /\ i > 1 /\ A[i - 1].op = "assets"
                        /\ i < Len(A) /\ A[i + 1].op = "upload"
                    /\ A[i].op = "upload" =>
                        /\ i > 1 /\ A[i - 1].op \in {"assets", "delete"}
                        /\ i = Len(A) \/ A[i + 1].op = "assets"

\* A run over two regular files and a directory has ended, with a delete.
C7_Witness ==
    /\ pc[1] = "done"
    /\ Len(entries[1]) = 3
    /\ Len(Regular(1)) = 2
    /\ Len(Uploads(1)) = 2
    /\ Ops(1, {"delete"}) # {}

\* C8: the stages of a run come in the order Resolver, Updater, new handle,
\* Lister/Uploader: the listing of the releases is the first request, every
\* Resolver request precedes the PATCH, and every asset request follows a
\* PATCH the service answered with 2xx, follows every Resolver and Updater
\* request and uses another handle than any of them.
C8_StageOrder ==
    \A p \in Procs :
        /\ \A i \in Ops(p, {"list"}) : i = 1
        /\ \A i \in Ops(p, {"list", "create"}), j \in Ops(p, {"update"}) : i < j
        /\ \A i \in Ops(p, AssetOps) :
            /\ \E j \in Ops(p, {"update"}) : j < i /\ log[p][j].accepted
            /\ \A j \in Ops(p, {"list", "create", "update"}) :
                /\ j < i
                /\ log[p][j].handle # log[p][i].handle

\* A run that created the release went on to upload an asset and finished.
C8_Witness ==
    /\ Ops(1, {"create"}) # {}
    /\ Ops(1, {"upload"}) # {}
    /\ pc[1] = "done"

\* The positions of the uploads that made an asset.
Made(p) == { i \in Ops(p, {"upload"}) : log[p][i].made # None }

\* Whether a later delete of the run removed the asset of upload i.
Replaced(p, i) ==
    \E j \in Ops(p, {"delete"}) :
        /\ j > i
        /\ log[p][j].carried
        /\ log[p][j].url = "https://api.github.com/repos/o/r/releases/assets/"
                               \o ToString(log[p][i].made[1])

\* C9 as claimed: once an operation of a run has failed, be it a request, the
\* decoding of a response or a local operation such as the call of git, the
\* run has ended and has issued no request since: after a panic the run is
\* over, after a git that exited with a failure no request but those of the
\* Resolver, which precede it, was sent; and every asset the run uploaded
\* before the failure is still on the release.
C9_Abort ==
    \A p \in Procs :
        /\ fail[p] # "" => pc[p] = "panicked"
        /\ gitStatus[p] = "failure" =>
               \A i \in 1..Len(log[p]) : log[p][i].op \in {"list", "create"}
        /\ pc[p] = "panicked" => \A i \in Made(p) : Present(log[p][i].made[1])

\* The command line was parsed, asked for no help, and the token or the
\* repository slug came from neither flag nor environment.
Unconfigured(p) ==
    /\ conf[p] # None
    /\ conf[p][1].parsed
    /\ ~conf[p][1].h
    /\ ~conf[p][1].token \/ ~conf[p][1].repo

\* C10 as claimed: when the token or the repository slug is missing the
\* program prints the usage text and exits without a panic and without a
\* request.
C10_UsageError ==
    \A p \in Procs :
        Unconfigured(p) =>
            usageShown[p] /\ pc[p] = "exited" /\ fail[p] = "" /\ log[p] = <<>>

\* The command line could not be read as Unicode, did not parse, or asked
\* for help.
Unread(p) ==
    /\ conf[p] # None
    /\ ~conf[p][1].parsed \/ conf[p][1].h

\* C10, amended: when the token or the repository slug is missing from a
\* command line that parses and does not ask for help, flagorenv panics:
\* the run ends on the panic path, without the usage text and without a
\* request; the usage text is printed only for -h and for a command line
\* that does not parse, and the run then exits without a panic and without
\* a request; when that text cannot be printed, or an argument is no valid
\* Unicode, the run ends in a panic instead, without a request.
C10_ConfigPanic ==
    \A p \in Procs :
        /\ Unconfigured(p) =>
            /\ pc[p] = "panicked"
            /\ fail[p] = "config"
            /\ ~usageShown[p]
            /\ log[p] = <<>>
        /\ usageShown[p] =>
            /\ Unread(p)
            /\ conf[p][1].unicode
            /\ pc[p] = "exited"
            /\ fail[p] = ""
            /\ log[p] = <<>>
        /\ Unread(p) =>
            /\ log[p] = <<>>
            /\ \/ usageShown[p] /\ pc[p] = "exited"
               \/ /\ ~usageShown[p]
                  /\ pc[p] = "panicked"
                  /\ fail[p] = IF conf[p][1].unicode THEN "stdout" ELSE "local"
        /\ pc[p] = "exited" => usageShown[p]

\* The token was given and the repository slug was not.
C10_Witness ==
    /\ Unconfigured(1)
    /\ conf[1][1].token
    /\ ~conf[1][1].repo
    /\ pc[1] = "panicked"

EndsWith(s, suf) ==
    Len(s) >= Len(suf) /\ SubSeq(s, Len(s) - Len(suf) + 1, Len(s)) = suf

\* The uploads of earlier artifacts of the run that made an asset under the
\* name of the current artifact.
EarlierSame(p) ==
    { i \in Made(p) : EndsWith(log[p][i].url, "?name=" \o filename[p]) }

\* The assets of instance p's release as the service lists them now.
Listed(p) ==
    LET IsOf(a) == a.rel = release[p][1].id
    IN  SelectSeq(assets, IsOf)

\* C11 as claimed: when a later file of the run derives the name an earlier
\* file of the run was uploaded under, the later file's sequence deletes the
\* asset the earlier file uploaded: once its scan and delete are over, that
\* asset is gone.
C11_DeletesEarlier ==
    \A p \in Procs :
        pc[p] = "upload" =>
            \A i \in EarlierSame(p) : ~Present(log[p][i].made[1])

\* C11, amended: the list that decides the deletion for an artifact is the
\* answer to a GET issued after every upload and delete of the earlier
\* artifacts of the run, and holds the release's assets as they are then; so
\* a later file of the same derived name sees the asset an earlier file
\* uploaded, and deletes the first asset of that name in the list: the
\* earlier file's asset when no older asset of that name precedes it, the
\* older asset otherwise.
C11_FreshList ==
    \A p \in Procs :
        pc[p] \in {"delete", "upload"} =>
            /\ Ops(p, {"assets"}) # {}
            /\ \A i \in Ops(p, {"upload"}) : i < Max(Ops(p, {"assets"}))
            /\ \A i \in Ops(p, {"delete"}) :
                \/ i < Max(Ops(p, {"assets"}))
                \/ pc[p] = "upload" /\ i = Len(log[p])
                                    /\ i = Max(Ops(p, {"assets"})) + 1
            /\ pc[p] = "delete" =>
                /\ Len(v[p]) = Len(Listed(p))
                /\ \A k \in 1..Len(v[p]) :
                    /\ v[p][k].id = Listed(p)[k].id
                    /\ v[p][k].name = Listed(p)[k].name
            /\ \A i \in EarlierSame(p) :
                /\ \E k \in Matching(p) : v[p][k].id = log[p][i].made[1]
                /\ pc[p] = "upload" =>
                    (Present(log[p][i].made[1])
                        <=> v[p][Min(Matching(p))].id # log[p][i].made[1])
            /\ pc[p] = "upload" /\ Matching(p) # {} =>
                ~Present(v[p][Min(Matching(p))].id)

\* The second file of a run has deleted the asset the first file of the
\* same derived name uploaded.
C11_Witness ==
    /\ pc[1] = "upload"
    /\ EarlierSame(1) # {}
    /\ \A i \in EarlierSame(1) : ~Present(log[1][i].made[1])
    /\ Last(log[1]).op = "delete"

\* Whether instance p is about to delete for a regular file, the entry the
\* loop of publish has reached, under that file's derived name.
Deleting(p) ==
    /\ pc[p] = "delete"
    /\ entries[p] # <<>>
    /\ Last(entries[p]).file
    /\ Last(entries[p]).name = path[p]
    /\ filename[p] = FileStem(path[p]) \o "-" \o host[p] \o exe[p]

\* C13: no step of a run removes or renumbers a release, and a step removes
\* an asset only as the delete of an instance that is processing a regular
\* file whose derived name is exactly the asset's name; every other asset
\* stays on the release as it was, in the same order.
C13_Frame ==
    [][/\ Len(releases') >= Len(releases)
       /\ \A i \in 1..Len(releases) :
           /\ releases'[i].id = releases[i].id
           /\ releases'[i].name = releases[i].name
       /\ \A k \in 1..Len(assets) :
           \/ \E j \in 1..Len(assets') : assets'[j] = assets[k]
           \/ \E p \in Procs :
               /\ Deleting(p)
               /\ pc'[p] = "upload" \/ fail'[p] = "transport"
               /\ assets[k].name = filename[p]
       /\ \A k, l \in 1..Len(assets) :
           k < l =>
               \A j, m \in 1..Len(assets') :
                   assets'[j] = assets[k] /\ assets'[m] = assets[l] => j < m
      ]_vars

\* An asset was deleted and replaced while the asset of another host
\* triple stayed.
C13_Witness ==
    /\ pc[1] = "next_file"
    /\ Ops(1, {"delete"}) # {}
    /\ \E i \in Ops(1, {"delete"}) : log[1][i].accepted
    /\ \E k \in 1..Len(assets) :
        assets[k].name = "tool-x64-linux" /\ assets[k].id < 13

\* The latest request of instance p is the POST of upload() and the loop has
\* not gone on to another file (a run that ended on the first line of the
\* next call of upload() has): path, filename and v are those of that call.
Posted(p) ==
    /\ log[p] # <<>>
    /\ Last(log[p]).op = "upload"
    /\ pc[p] \in {"next_file", "done", "panicked"}
    /\ pc[p] = "panicked" => fail[p] # "stdout"

\* The stem of the files a directory may hold, and the name an artifact is
\* to be uploaded under: stem, "-", host triple, executable suffix.
StemOf(name) == IF name = "tool.d" THEN "tool" ELSE name
Derived(p) == StemOf(path[p]) \o "-" \o host[p] \o exe[p]

\* Whether url is template up to its first "{", followed by "?name=" and name.
CutAt(template, name, url) ==
    LET braces == { k \in 1..Len(template) : SubSeq(template, k, k) = "{" }
    IN  /\ braces # {}
        /\ \A k \in braces :
            (\A j \in braces : k <= j) =>
                url = SubSeq(template, 1, k - 1) \o "?name=" \o name

\* C14: once upload() has sent its POST for a file, the POST went to the
\* release's upload_url cut before its first "{", followed by "?name=" and
\* the name stem-host-suffix of that file; the delete of that call, if there
\* was one, went to a fetched asset of exactly that name, and there was one
\* exactly if the fetched list held such an asset; the asset the service
\* made carries that name.
C14_DerivedName ==
    \A p \in Procs :
        Posted(p) =>
            /\ host[p] = "x64-windows" /\ exe[p] = ".exe"
            /\ filename[p] = Derived(p)
            /\ CutAt(release[p][1].upload_url, Derived(p), Last(log[p]).url)
            /\ Last(log[p]).url =
                   "https://uploads.github.com/repos/o/r/releases/"
                       \o ToString(release[p][1].id) \o "/assets?name="
                       \o Derived(p)
            /\ (log[p][Len(log[p]) - 1].op = "delete")
                   <=> \E k \in 1..Len(v[p]) : v[p][k].name = Derived(p)
            /\ log[p][Len(log[p]) - 1].op = "delete" =>
                   \E k \in 1..Len(v[p]) :
                       /\ v[p][k].name = Derived(p)
                       /\ log[p][Len(log[p]) - 1].url =
                              "https://api.github.com/repos/o/r/releases/assets/"
                                  \o ToString(v[p][k].id)
            /\ Last(log[p]).made # None =>
                   \E k \in 1..Len(assets) :
                       /\ assets[k].id = Last(log[p]).made[1]
                       /\ assets[k].name = Derived(p)
                       /\ assets[k].rel = release[p][1].id

\* tool.d was uploaded as tool-x64-windows.exe after the asset of that name
\* was deleted.
C14_Witness ==
    /\ Posted(1)
    /\ path[1] = "tool.d"
    /\ Last(log[1]).made # None
    /\ log[1][Len(log[1]) - 1].op = "delete"
    /\ \E k \in 1..Len(assets) :
        /\ assets[k].id = Last(log[1]).made[1]
        /\ assets[k].name = "tool-x64-windows.exe"

\* Whether every regular file of instance p's directory has an asset of its
\* derived name on p's release.
Holds(p) ==
    \A e \in 1..Len(entries[p]) :
        entries[p][e].file =>
            \E k \in 1..Len(assets) :
                /\ assets[k].rel = release[p][1].id
                /\ assets[k].name =
                       StemOf(entries[p][e].name) \o "-" \o host[p] \o exe[p]

\* The release of instance p is published at the local HEAD and holds an
\* asset for every regular file read_dir has yielded.
Published(p) ==
    /\ release[p] # None
    /\ head[p] \in Commits
    /\ \E k \in 1..Len(releases) :
        /\ releases[k].id = release[p][1].id
        /\ ~releases[k].draft
        /\ releases[k].target_commitish = head[p]
    /\ \A e \in 1..Len(entries[p]) :
        entries[p][e].file =>
            \E k \in 1..Len(assets) :
                /\ assets[k].rel = release[p][1].id
                /\ assets[k].name =
                       StemOf(entries[p][e].name) \o "-" \o host[p] \o exe[p]

\* C15 as claimed, for the runs that come to their end: a run all of whose
\* requests returned 2xx and that has ended without a panic has published
\* the release, not a draft, at the local HEAD hash, with an asset under the
\* derived name of every regular file of the directory.
C15_AllAccepted ==
    \A p \in Procs :
        (/\ pc[p] = "done"
         /\ \A i \in 1..Len(log[p]) : log[p][i].accepted) => Published(p)

\* The deletes of instance p that returned 2xx.
Deleted(p) == { i \in Ops(p, {"delete"}) : log[p][i].accepted }

\* C16 as claimed: a delete that returned 2xx is followed, as the next request
\* of the run, by an upload request under the same derived name; the run
\* does not end on the delete.
C16_DeleteThenUpload ==
    \A p \in Procs :
        \A i \in Deleted(p) :
            /\ i = Len(log[p]) => ~Ended(p)
            /\ i < Len(log[p]) =>
                /\ log[p][i + 1].op = "upload"
                /\ i + 1 = Len(log[p]) /\ pc[p] # "list_assets" =>
                       EndsWith(log[p][i + 1].url, "?name=" \o filename[p])

\* C16, amended: a delete that returned 2xx is followed, as the next request
\* of the run, by an upload request under the name of the deleted asset,
\* unless opening the file fails (or the upload URL has no "{", or the line
\* "upload to" cannot be printed): then the run ends in that panic with the
\* delete as its last request, the asset deleted and no upload attempted.
C16_UploadOrLocalPanic ==
    \A p \in Procs :
        \A i \in Deleted(p) :
            /\ i = Len(log[p]) =>
                /\ pc[p] \in {"upload", "panicked"}
                /\ pc[p] = "panicked" => fail[p] \in {"local", "stdout"}
                /\ \E k \in Matching(p) :
                    /\ log[p][i].url =
                           "https://api.github.com/repos/o/r/releases/assets/"
                               \o ToString(v[p][k].id)
                    /\ ~Present(v[p][k].id)
            /\ i < Len(log[p]) =>
                /\ log[p][i + 1].op = "upload"
                /\ log[p][i + 1].method = "POST"
                /\ i + 1 = Len(log[p]) /\ pc[p] # "list_assets" =>
                    /\ EndsWith(log[p][i + 1].url, "?name=" \o filename[p])
                    /\ \E k \in Matching(p) :
                        log[p][i].url =
                            "https://api.github.com/repos/o/r/releases/assets/"
                                \o ToString(v[p][k].id)

\* The previous asset was deleted, the file could not be opened, and the
\* run has ended with no asset of that name on the release.
C16_Witness ==
    /\ pc[1] = "panicked"
    /\ fail[1] = "local"
    /\ Deleted(1) # {}
    /\ Len(log[1]) \in Deleted(1)
    /\ Named(1) = {}

\* The create calls of instance p that the service carried out.
Created(p) == { i \in Ops(p, {"create"}) : log[p][i].carried }

\* The releases named "master", and those of them on the first page of the
\* listing.
AllMasters == { k \in 1..Len(releases) : releases[k].name = "master" }
PageMasters == { k \in AllMasters : k <= PageSize }

\* The listing of instance p was answered and decoded: get_release is past
\* its scan.
Listed1(p) == release[p] # None \/ pc[p] = "create" \/ Ops(p, {"create"}) # {}

\* C12 as claimed: of two runs against one repository, the second started
\* when the first is over or, earlier, when the create call of the first
\* has succeeded: if the create call of the first succeeded, the second,
\* once its listing is decoded, has found a release named "master" in the
\* listing and issues no create call; over both runs the service carries
\* out at most one create call, and the repository then holds one release
\* named "master".
C12_CreatedOnce ==
    /\ Cardinality(Created(1)) + Cardinality(Created(2)) <= 1
    /\ Created(1) # {} =>
        /\ Ops(2, {"create"}) = {}
        /\ pc[2] # "create"
        /\ release[2] # None =>
            /\ release[2][1].name = "master"
            /\ \E i \in 1..Len(rels[2]) : rels[2][i] = release[2][1]
            /\ release[1] # None => release[2] = release[1]
    /\ \A p \in Procs :
        Created(p) # {} => Cardinality(AllMasters) = 1

\* C12, amended: of two such runs, each creates at most one release, named
\* "master", and only after a listing that held no release of that name; if
\* the release the first run created is on the first page of the listing,
\* the second run, once its listing is decoded, has found it there and
\* issues no create call, and the repository holds one release named
\* "master"; if it lies beyond the first page, the second run does not see
\* it and goes on to create another release named "master".
C12_CreatedOnPage ==
    /\ \A p \in Procs :
        /\ Cardinality(Created(p)) <= 1
        /\ Ops(p, {"create"}) # {} \/ pc[p] = "create" => Masters(p) = {}
    /\ Created(1) # {} \/ Created(2) # {} =>
        Cardinality(AllMasters) = Cardinality(Created(1)) + Cardinality(Created(2))
    /\ Created(1) # {} /\ PageMasters # {} =>
        /\ Cardinality(AllMasters) = 1
        /\ Ops(2, {"create"}) = {}
        /\ pc[2] # "create"
        /\ release[2] # None =>
            /\ release[2][1].name = "master"
            /\ release[2][1].id = releases[Min(PageMasters)].id
            /\ \E i \in 1..Len(rels[2]) : rels[2][i] = release[2][1]
            /\ release[1] # None => release[2] = release[1]
    /\ Created(1) # {} /\ PageMasters = {} /\ Listed1(2) =>
        /\ Masters(2) = {}
        /\ pc[2] = "create" \/ Ops(2, {"create"}) # {}
        /\ release[1] # None /\ release[2] # None =>
               release[1][1].id # release[2][1].id

\* The first run created the release and the second, which found it, is
\* over before the first.
C12_Witness ==
    /\ Created(1) # {}
    /\ pc[2] = "done"
    /\ ~Ended(1)
    /\ release[2] = release[1]
    /\ Ops(2, {"upload"}) # {}

\* C17: when the listings of two instances with different host triples both
\* held a release named "master", the instances work on the same release;
\* no delete of one targets an asset the other uploaded, so an uploaded
\* asset is on the release unless a later delete of its own run removed it;
\* and once both runs have finished the release holds an asset for every
\* regular file of either.
C17_NoInterference ==
    Masters(1) # {} /\ Masters(2) # {} =>
        /\ host[1] # host[2]
        /\ release[1] = release[2]
        /\ \A p, q \in Procs :
            p # q =>
                /\ \A i \in Deleted(p), j \in Made(q) :
                       log[p][i].url #
                           "https://api.github.com/repos/o/r/releases/assets/"
                               \o ToString(log[q][j].made[1])
                /\ \A j \in Made(q) :
                       Present(log[q][j].made[1]) \/ Replaced(q, j)
        /\ pc[1] = "done" /\ pc[2] = "done" => Holds(1) /\ Holds(2)

\* Both runs have finished on the release that was there before, each has
\* uploaded after deleting its previous asset, and both assets are there.
C17_Witness ==
    /\ pc[1] = "done" /\ pc[2] = "done"
    /\ Masters(1) # {} /\ Masters(2) # {}
    /\ Made(1) # {} /\ Made(2) # {}
    /\ Deleted(1) # {} /\ Deleted(2) # {}
    /\ \A j \in Made(1) : Present(log[1][j].made[1])
    /\ \A j \in Made(2) : Present(log[2][j].made[1])
    /\ Len(assets) = 2

\* C18 as claimed: when two instances have run against a repository that
\* had no release named "master", so that one of them at least created it,
\* and both have uploaded and finished, both have attached their assets to
\* the same release and the repository holds exactly one release named
\* "master".
C18_OneMaster ==
    (/\ pc[1] = "done" /\ pc[2] = "done"
     /\ Made(1) # {} /\ Made(2) # {}
     /\ Created(1) # {} \/ Created(2) # {}) =>
        /\ release[1] = release[2]
        /\ Cardinality({ k \in 1..Len(releases) : releases[k].name = "master" }) = 1

====
